---------------------------- MODULE Spec2Model ----------------------------
(***************************************************************************)
(* Model of GestureVolumeController (src/gesture_volume_controller.py):    *)
(* the frame loop of run(), the distance-to-volume mapping, the two        *)
(* smoothing windows and the set_volume call.                              *)
(*                                                                         *)
(* Numbers.  np.interp yields floats v = 100 - (d - 30) * 100 / 170.  The  *)
(* model keeps every raw volume as the integer v * Scale (Scale = 170), so *)
(* that fractional raw volumes are exact, and int(sum / len) is the        *)
(* truncating division by Scale * len.  Fingertip positions are drawn from *)
(* pixel pairs whose distance is a whole number of pixels, for which the   *)
(* float computation of the source and this exact arithmetic agree.        *)
(***************************************************************************)
EXTENDS Integers, Sequences, FiniteSets, TLC

VARIABLES
    pc,                     \* position of run(): "open", "read", "process", "key",
                            \* "cleanup", "stopped", "no_camera", "crashed"
    volume_history,         \* self.volume_history   (raw volumes * Scale)
    vol_per_history,        \* self.vol_per_history  (raw percents * Scale)
    current_vol_smooth,     \* self.current_vol_smooth
    current_vol_per_smooth, \* self.current_vol_per_smooth
    frame,                  \* result of cap.read() and hands.process() of this iteration
    hand_detected,          \* local hand_detected of this iteration
    shown_percent,          \* percent last drawn by draw_volume_bar
    key,                    \* last key returned by cv2.waitKey
    calls,                  \* arguments of the set_volume calls of this iteration
    trace,                  \* history: the stages run on the frame of this iteration
    last_set,               \* outcome of the latest set_volume call
    cap_released,           \* cap.release() was called
    windows_destroyed,      \* cv2.destroyAllWindows() was called
    nFrames,                \* number of frames read so far
    appended,               \* history: raw volumes appended since the last clear()
    reset_seen              \* history: the 'r' key was handled at least once

vars == <<pc, volume_history, vol_per_history, current_vol_smooth,
          current_vol_per_smooth, frame, hand_detected, shown_percent, key,
          calls, trace, last_set, cap_released, windows_destroyed, nFrames,
          appended, reset_seen>>

---------------------------------------------------------------------------
(* Program constants, set in __init__.                                     *)
min_vol == 0
max_vol == 100
min_hand_distance == 30
max_hand_distance == 200
history_size == 5

(* Number of landmarks the loop requires before it reads indices 4 and 8.  *)
RequiredLandmarks == 9

(* Bound of the model: the camera delivers at most MaxFrames frames.       *)
MaxFrames == 7

(* Bounds of the sweep scenario: the index fingertip starts SweepFrom      *)
(* pixels from the thumb tip and moves away up to SweepTo pixels.          *)
SweepFrom == 27
SweepTo == 203

(* Raw volumes are kept as integers, in units of 1 / Scale.                *)
Scale == max_hand_distance - min_hand_distance

---------------------------------------------------------------------------
(* Inputs.                                                                 *)

ThumbTip == <<100, 100>>
Wrist == <<0, 0>>

(* Index fingertip positions, at 30 and 200 pixels from ThumbTip (raw      *)
(* volumes 100 and 0), and one at 100 pixels (raw volume 1000/17 = 58.8).  *)
IndexTips == { <<100, 130>>, <<100, 300>> }
MidTip == <<160, 180>>

(* hand_landmarks.landmark as the list built at lines 144-148: n points,   *)
(* the thumb tip at Python index 4 and the index tip at Python index 8.    *)
Landmarks(n, thumb, index) ==
    [i \in 1..n |-> IF i = 5 THEN thumb ELSE IF i = 9 THEN index ELSE Wrist]

TrackingHands == { Landmarks(21, ThumbTip, t) : t \in IndexTips }
                     \cup { Landmarks(RequiredLandmarks, ThumbTip, MidTip) }

ShortHands == { Landmarks(RequiredLandmarks - 1, ThumbTip, MidTip) }

(* results.multi_hand_landmarks: no hand, or one hand (max_num_hands=1).   *)
HandResults == { <<>> } \cup { <<h>> : h \in TrackingHands \cup ShortHands }

NoFrame == [success |-> FALSE, multi_hand_landmarks |-> <<>>]

Outcomes == { "ok", "failed" }

---------------------------------------------------------------------------
(* Pure functions.                                                         *)

(* int(x) of Python for the rational num / den, den > 0: toward zero.      *)
IntTrunc(num, den) ==
    IF num >= 0 THEN num \div den ELSE -((-num) \div den)

(* math.sqrt on the squares of whole numbers; lo <= sqrt(n) <= hi.          *)
Sqrt(n, lo, hi) == CHOOSE r \in lo..hi : r * r <= n /\ n < (r + 1) * (r + 1)

Abs(x) == IF x >= 0 THEN x ELSE -x
Min(a, b) == IF a <= b THEN a ELSE b
Max(a, b) == IF a >= b THEN a ELSE b

get_distance(point1, point2) ==
    LET dx == point2[1] - point1[1]
        dy == point2[2] - point1[2]
    IN  Sqrt(dx * dx + dy * dy, Max(Abs(dx), Abs(dy)), Abs(dx) + Abs(dy))

(* distance = max(min_hand_distance, min(distance, max_hand_distance))     *)
Clamp(distance) == Max(min_hand_distance, Min(distance, max_hand_distance))

(* np.interp(x, [xlo, xhi], [flo, fhi]) * (xhi - xlo): constant outside    *)
(* [xlo, xhi], linear inside.                                              *)
Interp(x, xlo, xhi, flo, fhi) ==
    IF x <= xlo THEN flo * (xhi - xlo)
    ELSE IF x >= xhi THEN fhi * (xhi - xlo)
    ELSE flo * (xhi - xlo) + (x - xlo) * (fhi - flo)

(* vol: line 169; vol_per: line 170.                                       *)
RawVolDeviceScale(distance) ==
    Interp(distance, min_hand_distance, max_hand_distance, 65535, 0)
RawVolNotInverted(distance) ==
    Interp(distance, min_hand_distance, max_hand_distance, min_vol, max_vol)
RawVol(distance) ==
    Interp(distance, min_hand_distance, max_hand_distance, max_vol, min_vol)
RawVolPerNotInverted(distance) ==
    Interp(distance, min_hand_distance, max_hand_distance, 0, 100)
RawVolPer(distance) ==
    Interp(distance, min_hand_distance, max_hand_distance, 100, 0)

RECURSIVE Sum(_)
Sum(s) == IF s = <<>> THEN 0 ELSE Head(s) + Sum(Tail(s))

(* smooth_volume: the list after the call and the value returned.          *)
smooth_volume_nopop(current_vol, history_list) ==
    LET l1 == Append(history_list, current_vol)
    IN  [list |-> l1, value |-> IntTrunc(Sum(l1), Scale * Len(l1))]
smooth_volume_lifo(current_vol, history_list) ==
    LET l1 == Append(history_list, current_vol)
        l2 == IF Len(l1) > history_size
              THEN SubSeq(l1, 1, history_size - 1) \o <<current_vol>>
              ELSE l1
    IN  [list |-> l2, value |-> IntTrunc(Sum(l2), Scale * Len(l2))]
smooth_volume_divsize(current_vol, history_list) ==
    LET l1 == Append(history_list, current_vol)
        l2 == IF Len(l1) > history_size THEN Tail(l1) ELSE l1
    IN  [list |-> l2, value |-> IntTrunc(Sum(l2), Scale * history_size)]
smooth_volume_round(current_vol, history_list) ==
    LET l1 == Append(history_list, current_vol)
        l2 == IF Len(l1) > history_size THEN Tail(l1) ELSE l1
    IN  [list |-> l2,
         value |-> IntTrunc(2 * Sum(l2) + Scale * Len(l2), 2 * Scale * Len(l2))]
smooth_volume(current_vol, history_list) ==
    LET l1 == Append(history_list, current_vol)
        l2 == IF Len(l1) > history_size THEN Tail(l1) ELSE l1
    IN  [list |-> l2, value |-> IntTrunc(Sum(l2), Scale * Len(l2))]

(* set_volume: the call is recorded; an exception of the OS call is caught *)
(* by the except clause (line 66), so the call never raises.               *)
set_volume_uncaught(st, volume, outcome) ==
    [st EXCEPT !.calls = Append(@, volume), !.last = outcome,
               !.trace = Append(@, "set_volume"),
               !.raised = (outcome = "failed")]
set_volume(st, volume, outcome) ==
    [st EXCEPT !.calls = Append(@, volume), !.last = outcome,
               !.trace = Append(@, "set_volume")]

---------------------------------------------------------------------------
(* The body of the loop over results.multi_hand_landmarks for one hand     *)
(* (lines 138-184), on the record st of the fields it reads and writes.    *)
HasTips(landmarks) == Len(landmarks) >= RequiredLandmarks

ProcessHandFlagLate(st, landmarks, outcome) ==
    IF HasTips(landmarks)
    THEN LET distance == Clamp(get_distance(landmarks[5], landmarks[9]))
             sv  == smooth_volume(RawVol(distance), st.vh)
             svp == smooth_volume(RawVolPer(distance), st.vph)
             st1 == [st EXCEPT !.hd = TRUE,
                               !.vh = sv.list, !.cvs = sv.value,
                               !.vph = svp.list, !.cvps = svp.value,
                               !.app = Append(@, RawVol(distance)),
                               !.trace = @ \o <<"map", "smooth_volume",
                                                "smooth_vol_per">>]
         IN  set_volume(st1, st1.cvs, outcome)
    ELSE st
(* set_volume called with the value of the frame before, ahead of the      *)
(* smoothing.                                                              *)
ProcessHandSetFirst(st, landmarks, outcome) ==
    LET st0 == [st EXCEPT !.hd = TRUE]
    IN  IF HasTips(landmarks)
        THEN LET distance == Clamp(get_distance(landmarks[5], landmarks[9]))
                 st1 == set_volume([st0 EXCEPT !.trace = Append(@, "map")],
                                   st0.cvs, outcome)
                 sv  == smooth_volume(RawVol(distance), st1.vh)
                 svp == smooth_volume(RawVolPer(distance), st1.vph)
             IN  [st1 EXCEPT !.vh = sv.list, !.cvs = sv.value,
                             !.vph = svp.list, !.cvps = svp.value,
                             !.app = Append(@, RawVol(distance)),
                             !.trace = @ \o <<"smooth_volume", "smooth_vol_per">>]
        ELSE st0
ProcessHand(st, landmarks, outcome) ==
    LET st0 == [st EXCEPT !.hd = TRUE]
    IN  IF HasTips(landmarks)
        THEN LET thumb_tip == landmarks[5]
                 index_tip == landmarks[9]
                 distance  == Clamp(get_distance(thumb_tip, index_tip))
                 vol       == RawVol(distance)
                 vol_per   == RawVolPer(distance)
                 sv  == smooth_volume(vol, st0.vh)
                 svp == smooth_volume(vol_per, st0.vph)
                 st1 == [st0 EXCEPT !.trace = Append(@, "map")]
                 st2 == [st1 EXCEPT !.vh = sv.list, !.cvs = sv.value,
                                    !.app = Append(@, vol),
                                    !.trace = Append(@, "smooth_volume")]
                 st3 == [st2 EXCEPT !.vph = svp.list, !.cvps = svp.value,
                                    !.trace = Append(@, "smooth_vol_per")]
             IN  set_volume(st3, st3.cvs, outcome)
        ELSE st0

RECURSIVE ForEachHand(_, _, _)
ForEachHand(st, hands, outcome) ==
    IF hands = <<>> \/ st.raised THEN st
    ELSE ForEachHand(ProcessHand(st, Head(hands), outcome), Tail(hands), outcome)

(* Lines 134-185: hand_detected = False, then the loop when the result is  *)
(* truthy.                                                                 *)
DetectHoldsReset(st, hands, outcome) ==
    IF hands # <<>> THEN ForEachHand(st, hands, outcome)
    ELSE [st EXCEPT !.vh = <<>>, !.vph = <<>>, !.cvs = 0, !.cvps = 0]
Detect(st, hands, outcome) ==
    IF hands # <<>> THEN ForEachHand(st, hands, outcome) ELSE st

---------------------------------------------------------------------------
(* The state machine of run().                                             *)

Init ==
    /\ pc = "open"
    /\ volume_history = <<>>
    /\ vol_per_history = <<>>
    /\ current_vol_smooth = 0
    /\ current_vol_per_smooth = 0
    /\ frame = NoFrame
    /\ hand_detected = FALSE
    /\ shown_percent = 0
    /\ key = "none"
    /\ calls = <<>>
    /\ trace = <<>>
    /\ last_set = "none"
    /\ cap_released = FALSE
    /\ windows_destroyed = FALSE
    /\ nFrames = 0
    /\ appended = <<>>
    /\ reset_seen = FALSE

(* Lines 102-108: the camera does not open; run() returns.                 *)
OpenFail ==
    /\ pc = "open"
    /\ pc' = "no_camera"
    /\ UNCHANGED trace
    /\ UNCHANGED <<volume_history, vol_per_history, current_vol_smooth,
                   current_vol_per_smooth, frame, hand_detected, shown_percent,
                   key, calls, last_set, cap_released, windows_destroyed,
                   nFrames, appended, reset_seen>>

(* Lines 102-119: the camera opens; the loop starts.                       *)
OpenOk ==
    /\ pc = "open"
    /\ pc' = "read"
    /\ UNCHANGED trace
    /\ UNCHANGED <<volume_history, vol_per_history, current_vol_smooth,
                   current_vol_per_smooth, frame, hand_detected, shown_percent,
                   key, calls, last_set, cap_released, windows_destroyed,
                   nFrames, appended, reset_seen>>

(* Lines 122, 127-132: a frame is read and the hand detector runs on it.   *)
ReadFrame ==
    /\ pc = "read"
    /\ nFrames < MaxFrames
    /\ \E hands \in HandResults :
          frame' = [success |-> TRUE, multi_hand_landmarks |-> hands]
    /\ nFrames' = nFrames + 1
    /\ hand_detected' = FALSE
    /\ calls' = <<>>
    /\ trace' = <<>>
    /\ pc' = "process"
    /\ UNCHANGED <<volume_history, vol_per_history, current_vol_smooth,
                   current_vol_per_smooth, shown_percent, key, last_set,
                   cap_released, windows_destroyed, appended, reset_seen>>

(* Lines 122-125: cap.read() fails; break.                                 *)
ReadFailReturns ==
    /\ pc = "read"
    /\ frame' = NoFrame
    /\ pc' = "stopped"
    /\ UNCHANGED trace
    /\ UNCHANGED <<volume_history, vol_per_history, current_vol_smooth,
                   current_vol_per_smooth, hand_detected, shown_percent, key,
                   calls, last_set, cap_released, windows_destroyed, nFrames,
                   appended, reset_seen>>
ReadFail ==
    /\ pc = "read"
    /\ frame' = NoFrame
    /\ pc' = "cleanup"
    /\ UNCHANGED trace
    /\ UNCHANGED <<volume_history, vol_per_history, current_vol_smooth,
                   current_vol_per_smooth, hand_detected, shown_percent, key,
                   calls, last_set, cap_released, windows_destroyed, nFrames,
                   appended, reset_seen>>

(* Lines 134-195: detection, mapping, smoothing, set_volume, overlay and   *)
(* volume bar of one frame.                                                *)
ProcessFrame ==
    /\ pc = "process"
    /\ \E outcome \in Outcomes :
          LET st0 == [vh |-> volume_history, vph |-> vol_per_history,
                      cvs |-> current_vol_smooth, cvps |-> current_vol_per_smooth,
                      hd |-> FALSE, calls |-> <<>>, trace |-> <<>>,
                      last |-> last_set,
                      raised |-> FALSE, app |-> appended]
              st  == Detect(st0, frame.multi_hand_landmarks, outcome)
          IN  /\ volume_history' = st.vh
              /\ vol_per_history' = st.vph
              /\ current_vol_smooth' = st.cvs
              /\ current_vol_per_smooth' = st.cvps
              /\ hand_detected' = st.hd
              /\ calls' = st.calls
              /\ trace' = st.trace
              /\ last_set' = st.last
              /\ appended' = st.app
              /\ shown_percent' = IF st.raised THEN shown_percent ELSE st.cvps
              /\ pc' = IF st.raised THEN "crashed" ELSE "key"
    /\ UNCHANGED <<frame, key, cap_released, windows_destroyed, nFrames,
                   reset_seen>>

(* Lines 198-205: the key of this iteration.                               *)
KeyQuit ==
    /\ pc = "key"
    /\ key' = "q"
    /\ pc' = "cleanup"
    /\ UNCHANGED trace
    /\ UNCHANGED <<volume_history, vol_per_history, current_vol_smooth,
                   current_vol_per_smooth, frame, hand_detected, shown_percent,
                   calls, last_set, cap_released, windows_destroyed, nFrames,
                   appended, reset_seen>>

KeyResetOneList ==
    /\ pc = "key"
    /\ key' = "r"
    /\ volume_history' = <<>>
    /\ appended' = <<>>
    /\ reset_seen' = TRUE
    /\ pc' = "read"
    /\ UNCHANGED trace
    /\ UNCHANGED <<vol_per_history, current_vol_smooth, current_vol_per_smooth,
                   frame, hand_detected, shown_percent, calls, last_set,
                   cap_released, windows_destroyed, nFrames>>
KeyResetZeroes ==
    /\ pc = "key"
    /\ key' = "r"
    /\ volume_history' = <<>>
    /\ vol_per_history' = <<>>
    /\ current_vol_smooth' = 0
    /\ current_vol_per_smooth' = 0
    /\ appended' = <<>>
    /\ reset_seen' = TRUE
    /\ pc' = "read"
    /\ UNCHANGED <<frame, hand_detected, shown_percent, calls, trace, last_set,
                   cap_released, windows_destroyed, nFrames>>
KeyReset ==
    /\ pc = "key"
    /\ key' = "r"
    /\ volume_history' = <<>>
    /\ vol_per_history' = <<>>
    /\ appended' = <<>>
    /\ reset_seen' = TRUE
    /\ pc' = "read"
    /\ UNCHANGED trace
    /\ UNCHANGED <<current_vol_smooth, current_vol_per_smooth, frame,
                   hand_detected, shown_percent, calls, last_set, cap_released,
                   windows_destroyed, nFrames>>

KeyOther ==
    /\ pc = "key"
    /\ key' = "none"
    /\ pc' = "read"
    /\ UNCHANGED trace
    /\ UNCHANGED <<volume_history, vol_per_history, current_vol_smooth,
                   current_vol_per_smooth, frame, hand_detected, shown_percent,
                   calls, last_set, cap_released, windows_destroyed, nFrames,
                   appended, reset_seen>>

(* Lines 207-210: cleanup after the loop.                                  *)
Cleanup ==
    /\ pc = "cleanup"
    /\ cap_released' = TRUE
    /\ windows_destroyed' = TRUE
    /\ pc' = "stopped"
    /\ UNCHANGED trace
    /\ UNCHANGED <<volume_history, vol_per_history, current_vol_smooth,
                   current_vol_per_smooth, frame, hand_detected, shown_percent,
                   key, calls, last_set, nFrames, appended, reset_seen>>

Next ==
    \/ OpenFail
    \/ OpenOk
    \/ ReadFrame
    \/ ReadFail
    \/ ProcessFrame
    \/ KeyQuit
    \/ KeyReset
    \/ KeyOther
    \/ Cleanup

Spec == Init /\ [][Next]_vars

---------------------------------------------------------------------------
(* The sweep scenario: the same loop, fed a hand that opens steadily, the  *)
(* index fingertip one pixel further from the thumb tip in every frame.    *)

SweepDistance ==
    IF frame.multi_hand_landmarks = <<>> THEN SweepFrom - 1
    ELSE get_distance(frame.multi_hand_landmarks[1][5],
                      frame.multi_hand_landmarks[1][9])

SweepFrame ==
    /\ pc = "read"
    /\ SweepDistance < SweepTo
    /\ frame' = [success |-> TRUE,
                 multi_hand_landmarks |->
                     << Landmarks(21, ThumbTip,
                                  <<ThumbTip[1], ThumbTip[2] + SweepDistance + 1>>) >>]
    /\ nFrames' = nFrames + 1
    /\ hand_detected' = FALSE
    /\ calls' = <<>>
    /\ trace' = <<>>
    /\ pc' = "process"
    /\ UNCHANGED <<volume_history, vol_per_history, current_vol_smooth,
                   current_vol_per_smooth, shown_percent, key, last_set,
                   cap_released, windows_destroyed, appended, reset_seen>>

NextSweep ==
    \/ OpenOk
    \/ SweepFrame
    \/ ReadFail
    \/ ProcessFrame
    \/ KeyOther
    \/ Cleanup

SpecSweep == Init /\ [][NextSweep]_vars

---------------------------------------------------------------------------
(* The wide scenario: the same loop, fed fingertips anywhere in the        *)
(* 640x480 frame: on the thumb tip, 20 pixels from it, 100 pixels to its   *)
(* left, and 250 and 379 pixels below it.                                  *)

WideTips == { ThumbTip, <<100, 120>>, <<0, 100>>, <<100, 350>>, <<100, 479>> }

WideHandResults ==
    { <<>> } \cup { << Landmarks(21, ThumbTip, t) >> : t \in WideTips }

WideFrame ==
    /\ pc = "read"
    /\ nFrames < MaxFrames
    /\ \E hands \in WideHandResults :
          frame' = [success |-> TRUE, multi_hand_landmarks |-> hands]
    /\ nFrames' = nFrames + 1
    /\ hand_detected' = FALSE
    /\ calls' = <<>>
    /\ trace' = <<>>
    /\ pc' = "process"
    /\ UNCHANGED <<volume_history, vol_per_history, current_vol_smooth,
                   current_vol_per_smooth, shown_percent, key, last_set,
                   cap_released, windows_destroyed, appended, reset_seen>>

NextWide ==
    \/ OpenOk
    \/ WideFrame
    \/ ReadFail
    \/ ProcessFrame
    \/ KeyQuit
    \/ KeyReset
    \/ KeyOther
    \/ Cleanup

SpecWide == Init /\ [][NextWide]_vars

---------------------------------------------------------------------------
(* Vocabulary of the properties.                                           *)

Hands == frame.multi_hand_landmarks
NoHandFrame == frame.success /\ Hands = <<>>
ShortFrame == Hands # <<>> /\ Len(Hands[1]) < RequiredLandmarks
TrackingFrame == Hands # <<>> /\ Len(Hands[1]) >= RequiredLandmarks

(* Fingertip distance of the frame, before clamping.                       *)
FrameDistance == get_distance(Hands[1][5], Hands[1][9])

Last(s) == s[Len(s)]
LastN(s, n) == SubSeq(s, Len(s) - n + 1, Len(s))
TruncMean(s) == IntTrunc(Sum(s), Scale * Len(s))
AllEqual(s) == \A i \in 1..Len(s) : s[i] = s[1]
NonIncreasing(s) == \A i \in 1..Len(s) : \A j \in i..Len(s) : s[i] >= s[j]

(* What a frame without measurement leaves alone.                          *)
HoldsState ==
    /\ volume_history' = volume_history
    /\ vol_per_history' = vol_per_history
    /\ current_vol_smooth' = current_vol_smooth
    /\ current_vol_per_smooth' = current_vol_per_smooth
    /\ shown_percent' = shown_percent
    /\ calls' = <<>>
    /\ last_set' = last_set

---------------------------------------------------------------------------
(* C1: processing a frame in which no hand is reported leaves both         *)
(* smoothing windows and both last emitted values unchanged, issues no     *)
(* set_volume call, and leaves the displayed percent as it was.            *)
C1_NoHandHolds ==
    [][(pc = "process" /\ NoHandFrame) => HoldsState]_vars

(* A no-hand frame was processed while a non-zero value was held.          *)
C1_Witness ==
    /\ pc = "key"
    /\ NoHandFrame
    /\ volume_history # <<>>
    /\ current_vol_per_smooth > 0
    /\ shown_percent = current_vol_per_smooth

(* C2: in every state (each is the end of a smooth_volume call or of a     *)
(* loop step) both smoothing windows hold at most history_size values.     *)
C2_WindowBounded ==
    /\ Len(volume_history) <= history_size
    /\ Len(vol_per_history) <= history_size

(* Both windows are full after more than history_size appends.             *)
C2_Witness ==
    /\ Len(appended) > history_size
    /\ Len(volume_history) = history_size
    /\ Len(vol_per_history) = history_size

(* C3, as amended: after the 'r' key both windows are empty, and the next  *)
(* tracking frame emits its own raw value truncated to an integer, as      *)
(* smoothed volume and as smoothed percent.                                *)
C3_ResetThenRawTruncated ==
    /\ (key = "r" /\ pc # "key") =>
          (volume_history = <<>> /\ vol_per_history = <<>>)
    /\ (reset_seen /\ pc = "key" /\ TrackingFrame /\ Len(appended) = 1) =>
          /\ current_vol_smooth = IntTrunc(RawVol(Clamp(FrameDistance)), Scale)
          /\ current_vol_per_smooth =
                 IntTrunc(RawVolPer(Clamp(FrameDistance)), Scale)

(* C3, as claimed: the next tracking frame emits exactly its raw value.    *)
C3_ResetThenRawExact ==
    /\ (key = "r" /\ pc # "key") =>
          (volume_history = <<>> /\ vol_per_history = <<>>)
    /\ (reset_seen /\ pc = "key" /\ TrackingFrame /\ Len(appended) = 1) =>
          /\ current_vol_smooth * Scale = RawVol(Clamp(FrameDistance))
          /\ current_vol_per_smooth * Scale = RawVolPer(Clamp(FrameDistance))

(* The first tracking frame after a reset, at 100 pixels: its raw value    *)
(* 1000/17 is emitted as 58.                                               *)
C3_Witness ==
    /\ reset_seen
    /\ pc = "key"
    /\ TrackingFrame
    /\ Len(appended) = 1
    /\ volume_history = <<RawVol(100)>>
    /\ current_vol_smooth = 58
    /\ current_vol_per_smooth = 58

(* C4: after more than history_size appends without a reset, each window   *)
(* holds the last history_size appended values in arrival order, and the   *)
(* emitted value is the truncated mean of those values only.               *)
C4_StrictFifo ==
    Len(appended) > history_size =>
        /\ volume_history = LastN(appended, history_size)
        /\ vol_per_history = LastN(appended, history_size)
        /\ current_vol_smooth = TruncMean(LastN(appended, history_size))
        /\ current_vol_per_smooth = TruncMean(LastN(appended, history_size))

(* Six or more appends, the evicted first value unlike the oldest kept and *)
(* unlike the newest.                                                      *)
C4_Witness ==
    /\ Len(appended) > history_size
    /\ appended[1] # volume_history[1]
    /\ appended[1] # Last(volume_history)
    /\ TruncMean(LastN(appended, history_size))
           # TruncMean(SubSeq(appended, 1, history_size))

(* C5, as amended: a frame whose hand has fewer than 9 landmarks skips     *)
(* mapping, smoothing and set_volume and holds the windows and the last    *)
(* emitted values, as a no-hand frame does; but its hand_detected flag is  *)
(* True, so the 'No Hand Detected' overlay is not drawn.                   *)
C5_ShortHandHoldsButDetected ==
    [][(pc = "process" /\ ShortFrame) => (HoldsState /\ hand_detected')]_vars

(* C5, as claimed: such a frame also has the status of a no-hand frame.    *)
C5_ShortHandAsNoHand ==
    [][(pc = "process" /\ ShortFrame) => (HoldsState /\ ~hand_detected')]_vars

(* A short-landmark frame was processed while a non-zero value was held.   *)
C5_Witness ==
    /\ pc = "key"
    /\ ShortFrame
    /\ volume_history # <<>>
    /\ current_vol_smooth > 0

(* C6: a failing set_volume never ends the loop; after a tracking frame,   *)
(* whatever the outcome of its call, the windows end with the frame's raw  *)
(* values, the emitted values are the truncated means of the windows, and  *)
(* exactly one call was issued, with the frame's smoothed volume; a frame  *)
(* that is not tracking issues no call, also after a failed one.           *)
C6_FailureTolerated ==
    /\ pc # "crashed"
    /\ (pc = "key" /\ TrackingFrame) =>
          /\ calls = <<current_vol_smooth>>
          /\ Last(volume_history) = RawVol(Clamp(FrameDistance))
          /\ Last(vol_per_history) = RawVolPer(Clamp(FrameDistance))
          /\ current_vol_smooth = TruncMean(volume_history)
          /\ current_vol_per_smooth = TruncMean(vol_per_history)
    /\ (pc = "key" /\ ~TrackingFrame) => calls = <<>>

(* The loop went on after a failed call: a later frame without a hand was  *)
(* processed and issued no call.                                           *)
C6_Witness ==
    /\ pc = "key"
    /\ NoHandFrame
    /\ last_set = "failed"
    /\ calls = <<>>
    /\ volume_history # <<>>

NothingAfterExit ==
    /\ pc' \in {"cleanup", "stopped"}
    /\ UNCHANGED <<volume_history, vol_per_history, current_vol_smooth,
                   current_vol_per_smooth, calls, last_set, appended>>

(* C7: the loop is left only through the cleanup; once run() has stopped   *)
(* after the loop, the camera is released and the windows are destroyed;   *)
(* and after the quit key or the failed read nothing is smoothed or set.   *)
C7_ExitReleases ==
    /\ [](pc = "stopped" => (cap_released /\ windows_destroyed))
    /\ [][(pc = "key" /\ key' = "q") => pc' = "cleanup"]_vars
    /\ [][(pc = "read" /\ ~frame'.success) => pc' = "cleanup"]_vars
    /\ [][(pc = "cleanup" \/ pc = "stopped") => NothingAfterExit]_vars

(* run() stopped on the quit key of an iteration whose set_volume failed.  *)
C7_Witness ==
    /\ pc = "stopped"
    /\ key = "q"
    /\ calls # <<>>
    /\ last_set = "failed"
    /\ cap_released
    /\ windows_destroyed

C10_ConstantInputTruncated ==
    (Len(appended) >= history_size /\ AllEqual(LastN(appended, history_size))) =>
        /\ current_vol_smooth = IntTrunc(Last(appended), Scale)
        /\ current_vol_per_smooth = IntTrunc(Last(appended), Scale)

(* C10, as claimed: the emitted values equal that raw value exactly.       *)
C10_ConstantInputExact ==
    (Len(appended) >= history_size /\ AllEqual(LastN(appended, history_size))) =>
        /\ current_vol_smooth * Scale = Last(appended)
        /\ current_vol_per_smooth * Scale = Last(appended)

(* The same fractional raw value was fed more than history_size times.     *)
C10_Witness ==
    /\ pc = "key"
    /\ Len(appended) > history_size
    /\ AllEqual(appended)
    /\ Last(appended) = RawVol(100)
    /\ current_vol_smooth = 58

(* The window after one append of value and the eviction that follows.     *)
AppendedOnce(window, value) ==
    IF Len(window) + 1 > history_size
    THEN Tail(Append(window, value))
    ELSE Append(window, value)

(* What the processing of a tracking frame does to the windows.            *)
OneAppendEach ==
    /\ volume_history' =
           AppendedOnce(volume_history, RawVol(Clamp(FrameDistance)))
    /\ vol_per_history' =
           AppendedOnce(vol_per_history, RawVolPer(Clamp(FrameDistance)))
    /\ Len(appended') = Len(appended) + 1

(* What holds when the next frame is read: the frame before is done, and   *)
(* if it was a tracking frame its one set_volume call has been issued.     *)
PreviousFrameDone ==
    /\ nFrames' = nFrames + 1
    /\ pc = "read"
    /\ calls' = <<>>
    /\ trace' = <<>>
    /\ TrackingFrame =>
          (calls = <<current_vol_smooth>> /\ Last(trace) = "set_volume")

(* C11: a tracking frame runs the mapping, the smoothing of the volume,    *)
(* the smoothing of the percent and then one set_volume call, in this      *)
(* order, the call carrying the smoothed volume of that frame; each window *)
(* receives one append per tracking frame; any other frame runs none of    *)
(* these; and a frame is read only after the call of the frame before.     *)
C11_PipelineOrder ==
    /\ []((pc = "key" /\ TrackingFrame) =>
            /\ trace = <<"map", "smooth_volume", "smooth_vol_per", "set_volume">>
            /\ calls = <<TruncMean(volume_history)>>
            /\ calls = <<current_vol_smooth>>)
    /\ []((pc = "key" /\ ~TrackingFrame) => (trace = <<>> /\ calls = <<>>))
    /\ [][(pc = "process" /\ TrackingFrame) => OneAppendEach]_vars
    /\ [][(nFrames' # nFrames) => PreviousFrameDone]_vars

(* A second or later tracking frame has been processed on a window that    *)
(* already held a different value.                                         *)
C11_Witness ==
    /\ pc = "key"
    /\ TrackingFrame
    /\ nFrames >= 2
    /\ Len(volume_history) >= 2
    /\ volume_history[1] # Last(volume_history)
    /\ trace = <<"map", "smooth_volume", "smooth_vol_per", "set_volume">>
    /\ calls = <<current_vol_smooth>>

InRange(s, lo, hi) == \A i \in 1..Len(s) : lo <= s[i] /\ s[i] <= hi

(* C12: under the wide scenario, with fingertips at any distance and with  *)
(* resets, every argument of set_volume and both stored emitted values are *)
(* integers from 0 to 100, and every element of either window lies between *)
(* 0 and 100.                                                              *)
C12_VolumeInRange ==
    /\ current_vol_smooth \in 0..100
    /\ current_vol_per_smooth \in 0..100
    /\ InRange(calls, 0, 100)
    /\ InRange(volume_history, 0, 100 * Scale)
    /\ InRange(vol_per_history, 0, 100 * Scale)

(* After a reset, frames closer than 30 pixels and further than 200 pixels *)
(* have been smoothed together and the result was passed to set_volume.    *)
C12_Witness ==
    /\ pc = "key"
    /\ reset_seen
    /\ TrackingFrame
    /\ FrameDistance > max_hand_distance
    /\ Len(volume_history) = history_size
    /\ volume_history[1] = 100 * Scale
    /\ Last(volume_history) = 0
    /\ calls = <<current_vol_smooth>>
    /\ current_vol_smooth \in 1..99

(* C13: in every state the two windows are equal element by element and   *)
(* the two emitted values are equal; so the argument of a set_volume call  *)
(* equals the percent drawn for the same frame.                            *)
C13_SignalsCoincide ==
    /\ volume_history = vol_per_history
    /\ current_vol_smooth = current_vol_per_smooth
    /\ (pc = "key" /\ calls # <<>>) => calls = <<shown_percent>>

(* After a reset, a tracking frame was smoothed over several different     *)
(* values and its result was set and drawn.                                *)
C13_Witness ==
    /\ pc = "key"
    /\ reset_seen
    /\ Len(volume_history) >= 3
    /\ volume_history[1] # Last(volume_history)
    /\ volume_history = vol_per_history
    /\ calls = <<shown_percent>>
    /\ shown_percent \in 1..99

(* What the step that handles the 'r' key does.                            *)
ResetEffect ==
    /\ volume_history' = <<>>
    /\ vol_per_history' = <<>>
    /\ current_vol_smooth' = current_vol_smooth
    /\ current_vol_per_smooth' = current_vol_per_smooth
    /\ shown_percent' = shown_percent
    /\ calls' = calls
    /\ trace' = trace
    /\ last_set' = last_set
    /\ frame' = frame
    /\ hand_detected' = hand_detected

(* What holds while the windows stay empty: no tracking frame has come.    *)
HeldWhileEmpty ==
    /\ current_vol_smooth' = current_vol_smooth
    /\ current_vol_per_smooth' = current_vol_per_smooth
    /\ shown_percent' = shown_percent
    /\ calls' = calls \/ calls' = <<>>
    /\ last_set' = last_set

(* C14: the step that handles the 'r' key empties both windows, keeps both *)
(* emitted values and the drawn percent, issues no set_volume call and     *)
(* leaves the results of the frame of its iteration as they were; and as   *)
(* long as the windows stay empty the values are held and nothing is set.  *)
C14_ResetFrame ==
    /\ [][(pc = "key" /\ key' = "r") => ResetEffect]_vars
    /\ [][(volume_history = <<>> /\ volume_history' = <<>>) => HeldWhileEmpty]_vars
    /\ []((pc = "read" /\ key = "r" /\ TrackingFrame) =>
            /\ calls = <<current_vol_smooth>>
            /\ shown_percent = current_vol_per_smooth
            /\ hand_detected)

(* The 'r' key was handled at the end of an iteration whose tracking frame *)
(* had emitted a non-zero value: the windows are empty, the value is kept. *)
C14_Witness ==
    /\ pc = "read"
    /\ key = "r"
    /\ TrackingFrame
    /\ volume_history = <<>>
    /\ vol_per_history = <<>>
    /\ current_vol_smooth > 0
    /\ calls = <<current_vol_smooth>>
    /\ shown_percent = current_vol_per_smooth

=============================================================================
